---- MODULE Spec2Model ----
(***************************************************************************)
(* The offline-resilient delivery subsystem of the Phoenix desktop         *)
(* tracker: APIClient (src/api_client.py) over DataCache                   *)
(* (src/data_cache.py).  One process, one control thread: an invocation of *)
(* send_heartbeat or upload_screenshot runs step by step (request, cache   *)
(* write, replay pass) until it returns or raises.                         *)
(***************************************************************************)
EXTENDS Integers, Sequences, FiniteSets, TLC

VARIABLES
    store,              \* rows of table pending_uploads
    seq,                \* sqlite_sequence: the largest id ever assigned
    last_capture_time,  \* APIClient.last_capture_time
    clock,              \* what time.time() returns now
    pc,                 \* position of the control thread
    op,                 \* the invocation in progress (or the last one)
    live,               \* outcome of the invocation's live request
    batch,              \* pending_items of the replay pass
    bi,                 \* index of the replay loop in batch
    result,             \* what the last invocation returned or raised
    reqs,               \* session.post calls of the invocation, in order
    store0,             \* history: store when the invocation started
    fault,              \* history: a cache operation of the invocation failed
    passes,             \* history: get_pending_items calls of the invocation
    removes,            \* history: remove_item calls of the invocation, with their results
    lastIssued,         \* history: current_time of the last upload that issued a request (0: none)
    drainK,             \* history: transient sends in a row since the queue was empty (-1: none)
    drainReqs,          \* history: requests issued in that run of sends
    drainDone,          \* history: the last invocation ended that run with an accepted send
    rejected,           \* history: id of the queued event whose resend was last answered 401, 413 or 422 (0: none)
    ret,                \* the last direct call of a DataCache method, with what it returned
    unremoved,          \* history: id of the oldest queued event whose resend was accepted and whose remove_item failed (0: none)
    tray,               \* the tray application: its settings, its running flag and its tracker threads
    peer                \* a second process on the same database file: its APIClient inside send_heartbeat

vars == <<store, seq, last_capture_time, clock, pc, op, live, batch, bi, result,
          reqs, store0, fault, passes, removes,
          lastIssued, drainK, drainReqs, drainDone, rejected, ret, unremoved, tray, peer>>

\* what the tracker process of one APIClient does not touch
elsewhere == <<tray, peer>>

hist == <<lastIssued, drainK, drainReqs, drainDone>>

----------------------------------------------------------------------------
\* Bounds of the model.

\* ids the store assigns in one behaviour
MaxId == 3

\* the readings of the wall clock (seconds)
Times == {100, 130}

Apps == {"editor"}

Titles == {"title"}

Images == {<<1, 2, 3>>}

\* is_idle arguments of send_heartbeat
Idles == {FALSE}

\* APIClient.min_capture_interval
min_capture_interval == 30

\* process_pending_uploads: get_pending_items(limit=5)
ReplayLimit == 5

DEVICE_ID == "dev"

----------------------------------------------------------------------------
\* Values.

\* Python None / a bytes value, for the file_data column
NoFile == [some |-> FALSE, bytes |-> <<>>]

File(b) == [some |-> TRUE, bytes |-> b]

\* Python values of a payload dictionary: str, int/float, bool, list, tuple
\* and bytes (a value json cannot serialise).  A value holds its type and its
\* content, in the field of that type.
PyVal(py, s, n, b, q) == [py |-> py, s |-> s, n |-> n, b |-> b, q |-> q]

PyStr(x) == PyVal("str", x, 0, FALSE, <<>>)

PyNum(x) == PyVal("num", "", x, FALSE, <<>>)

PyBool(x) == PyVal("bool", "", 0, x, <<>>)

PyList(x) == PyVal("list", "", 0, FALSE, x)

PyTuple(x) == PyVal("tuple", "", 0, FALSE, x)

PyBytes(x) == PyVal("bytes", "", 0, FALSE, x)

\* json.dumps raises TypeError on a value that is not JSON serialisable
Serializable(d) == \A k \in DOMAIN d : d[k].py # "bytes"

\* a JSON text: string, number, true/false or array
JsonVal(js, x) == [js |-> js, s |-> x.s, n |-> x.n, b |-> x.b, q |-> x.q]

\* an encoder that writes a tuple under a tag of its own
to_json_TaggedTuple(x) ==
    IF x.py = "str" THEN JsonVal("string", x)
    ELSE IF x.py = "num" THEN JsonVal("number", x)
    ELSE IF x.py = "bool" THEN JsonVal("bool", x)
    ELSE JsonVal(x.py, x)

\* the JSON encoder: a list and a tuple are both written as an array
to_json(x) ==
    IF x.py = "str" THEN JsonVal("string", x)
    ELSE IF x.py = "num" THEN JsonVal("number", x)
    ELSE IF x.py = "bool" THEN JsonVal("bool", x)
    ELSE JsonVal("array", x)

\* the JSON decoder: an array is read as a list
from_json(j) ==
    IF j.js = "string" THEN PyVal("str", j.s, j.n, j.b, j.q)
    ELSE IF j.js = "number" THEN PyVal("num", j.s, j.n, j.b, j.q)
    ELSE IF j.js = "bool" THEN PyVal("bool", j.s, j.n, j.b, j.q)
    ELSE IF j.js = "array" THEN PyVal("list", j.s, j.n, j.b, j.q)
    ELSE PyVal(j.js, j.s, j.n, j.b, j.q)

\* json.dumps(data): the text stored in column data
json_dumps(d) == [valid |-> TRUE, value |-> [k \in DOMAIN d |-> to_json(d[k])]]

\* json.loads does not raise JSONDecodeError on the text
json_ok(t) == t.valid

\* json.loads(data_json)
json_loads(t) == [k \in DOMAIN t.value |-> from_json(t.value[k])]

\* what session.post can do: raise before a status is obtained, or answer
NetErr == [exc |-> TRUE, status |-> 0, json |-> FALSE]

Resp(s, j) == [exc |-> FALSE, status |-> s, json |-> j]

Statuses == {200, 401, 404, 413, 422, 500, 503}

Outcomes == {NetErr} \cup {Resp(s, TRUE) : s \in Statuses}
                     \cup {Resp(200, FALSE), Resp(422, FALSE)}

\* a raise_for_status that lets the 4xx answers pass
IsHTTPError_5xxOnly(o) == ~o.exc /\ 500 <= o.status /\ o.status < 600

\* response.raise_for_status() raises HTTPError
IsHTTPError(o) == ~o.exc /\ 400 <= o.status /\ o.status < 600

\* a test that takes every error status for a server error
Is5xx_AnyError(o) == ~o.exc /\ 400 <= o.status /\ o.status < 600

\* the 5xx test of the handlers
Is5xx(o) == ~o.exc /\ 500 <= o.status /\ o.status < 600

\* a replay loop without raise_for_status: only a failed connection raises
RaisesInReplay_NetOnly(o) == o.exc

\* session.post(...).raise_for_status() raises: the except clause of the replay loop runs
RaisesInReplay(o) == o.exc \/ IsHTTPError(o)

\* the outcome classes of the transport: Accepted (2xx), ServerUnavailable or
\* NetworkFailure (transient), AuthInvalid or PayloadTooLarge (fatal)
Accepted(o) == ~o.exc /\ 200 <= o.status /\ o.status < 300

Transient(o) == o.exc \/ (500 <= o.status /\ o.status < 600)

Fatal(o) == ~o.exc /\ o.status \in {401, 413}

\* AuthInvalid, PayloadTooLarge or PayloadRejected: the outcomes the event is not to be retried after
Terminal(o) == ~o.exc /\ o.status \in {401, 413, 422}

\* The record of a direct call of a DataCache method: the method, its
\* arguments (entry: those of add_item; n: the limit or the item_id), whether
\* the storage layer raised, and the value returned (ok: the bool of add_item,
\* remove_item and clear_cache; items: the list of get_pending_items; count and
\* size_bytes: the dictionary of get_stats).
Ret(call, entry, n, raised, ok, items, count, size_bytes) ==
    [call |-> call, entry |-> entry, n |-> n, raised |-> raised,
     ok |-> ok, items |-> items, count |-> count, size_bytes |-> size_bytes]

\* no direct DataCache call yet
NoRet == Ret("none", <<>>, 0, FALSE, FALSE, <<>>, 0, 0)

NoOutcome == [exc |-> FALSE, status |-> 0, json |-> FALSE]

\* results of an invocation
Returned(w) == [how |-> "return", what |-> w, retry_after |-> 0]

Raised(w) == [how |-> "raise", what |-> w, retry_after |-> 0]

RateLimited(r) == [how |-> "return", what |-> "rate_limited", retry_after |-> r]

NoResult == [how |-> "none", what |-> "none", retry_after |-> 0]

\* PhoenixTrayApp.__init__: not running, no tracker thread, no client; calls is
\* the history of the handlers called since, alive the tracker threads that
\* have not ended
TrayConstructed(configured, token) ==
    [phase |-> "constructed", configured |-> configured, token |-> token,
     running |-> FALSE, tracker_thread |-> 0, api_client |-> "None",
     alive |-> {}, calls |-> <<>>]

\* the tray application before run(), and no second process
NoTray == TrayConstructed(FALSE, FALSE)

\* the APIClient of a second process; pc = "none": there is no second process
PeerAt(pc_, data, lv, b, i, rq, rm) ==
    [pc |-> pc_, data |-> data, live |-> lv, batch |-> b, bi |-> i, reqs |-> rq, removes |-> rm]

NoPeer == PeerAt("none", [timestamp |-> PyNum(0)], NoOutcome, <<>>, 0, <<>>, <<>>)

NoOp == [kind |-> "none", data |-> [timestamp |-> PyNum(0)], file |-> NoFile, current_time |-> 0]

Ids(S) == {r.id : r \in S}


----------------------------------------------------------------------------
\* DataCache (src/data_cache.py).

\* an INSERT that leaves out the file_data column
NewRow_NoFile(type, data, file_data) ==
    [id |-> seq + 1, timestamp |-> clock, type |-> type,
     data |-> json_dumps(data), file_data |-> NoFile]

\* an INSERT into a table without AUTOINCREMENT: the id after the largest id in the table
NewRow_ReusesRowid(type, data, file_data) ==
    [id |-> IF store = {} THEN 1
            ELSE (CHOOSE m \in Ids(store) : \A i \in Ids(store) : i <= m) + 1,
     timestamp |-> clock, type |-> type,
     data |-> json_dumps(data), file_data |-> file_data]

\* add_item: the row INSERTed; AUTOINCREMENT assigns the id after sqlite_sequence
NewRow(type, data, file_data) ==
    [id |-> seq + 1, timestamp |-> clock, type |-> type,
     data |-> json_dumps(data), file_data |-> file_data]

\* what add_item returns: True unless json.dumps or the INSERT raised
Stored(ok, data) == ok /\ Serializable(data)

\* an add_item that also refreshes the timestamp of the rows already queued
add_item_Touches(ok, type, data, file_data) ==
    IF Stored(ok, data)
    THEN /\ store' = {[r EXCEPT !.timestamp = clock] : r \in store}
                         \cup {NewRow(type, data, file_data)}
         /\ seq' = seq + 1
    ELSE UNCHANGED <<store, seq>>

\* add_item(item_type, data, file_data); ok = FALSE: the INSERT raises, add_item returns False
add_item(ok, type, data, file_data) ==
    IF Stored(ok, data)
    THEN /\ store' = store \cup {NewRow(type, data, file_data)}
         /\ seq' = seq + 1
    ELSE UNCHANGED <<store, seq>>

\* the orders in which ORDER BY timestamp ASC can return the rows of S (ties in any order)
RECURSIVE Orders(_)
Orders(S) ==
    IF S = {} THEN {<<>>}
    ELSE UNION {{<<r>> \o t : t \in Orders(S \ {r})} :
                r \in {x \in S : \A y \in S : x.timestamp <= y.timestamp}}

\* a SELECT without its LIMIT
Limit_Ignored(s, n) == s

\* LIMIT ?
Limit(s, n) == SubSeq(s, 1, IF Len(s) < n THEN Len(s) ELSE n)

\* a loop without the inner try: one row that does not decode fails the whole read
Decode_FailsOnCorrupt(rows) ==
    IF \E i \in 1..Len(rows) : ~json_ok(rows[i].data) THEN <<>>
    ELSE [i \in 1..Len(rows) |->
            [id |-> rows[i].id, type |-> rows[i].type, data |-> json_loads(rows[i].data),
             file_data |-> rows[i].file_data]]

\* the loop over rows: a row whose data does not decode is skipped
RECURSIVE Decode(_)
Decode(rows) ==
    IF rows = <<>> THEN <<>>
    ELSE LET r == Head(rows)
         IN (IF json_ok(r.data)
             THEN <<[id |-> r.id, type |-> r.type, data |-> json_loads(r.data),
                     file_data |-> r.file_data]>>
             ELSE <<>>) \o Decode(Tail(rows))

\* get_pending_items(limit): what it can return; ok = FALSE: the SELECT raises
get_pending_items(ok, limit) ==
    IF ok THEN {Decode(Limit(o, limit)) : o \in Orders(store)} ELSE {<<>>}

\* a DELETE that spares the newest row
clear_cache_KeepsNewest(S) == {r \in S : \A x \in S : x.id <= r.id}

\* clear_cache(): the table after DELETE FROM pending_uploads
clear_cache(S) == {}

\* DELETE ... WHERE id <= ?
remove_item_OlderToo(S, item_id) == {r \in S : r.id > item_id}

\* remove_item(item_id): the table after DELETE ... WHERE id = ?
remove_item(S, item_id) == {r \in S : r.id # item_id}

----------------------------------------------------------------------------
\* The end of an invocation: it returns or raises res.  flt: a cache operation
\* of the invocation failed; rq: its requests.  The drain history is advanced.

AllReplaysAccepted(rq) == \A i \in 2..Len(rq) : rq[i].accepted

Finish(res, lv, flt, rq) ==
    /\ pc' = "done"
    /\ result' = res
    /\ IF drainK < 0 \/ flt
       THEN drainK' = -1 /\ drainReqs' = 0 /\ drainDone' = FALSE
       ELSE IF Transient(lv)
       THEN drainK' = drainK + 1 /\ drainReqs' = drainReqs + Len(rq) /\ drainDone' = FALSE
       ELSE IF Accepted(lv) /\ AllReplaysAccepted(rq)
       THEN drainK' = drainK /\ drainReqs' = drainReqs + Len(rq) /\ drainDone' = TRUE
       ELSE drainK' = -1 /\ drainReqs' = 0 /\ drainDone' = FALSE

\* The start of an invocation: the per-invocation history is reset.
Enter(o) ==
    /\ op' = o
    /\ live' = NoOutcome
    /\ batch' = <<>>
    /\ bi' = 0
    /\ reqs' = <<>>
    /\ store0' = store
    /\ fault' = FALSE
    /\ passes' = 0
    /\ removes' = <<>>

\* An invocation of the tracker loop starts between two others; the number of
\* rows ever inserted is capped.
Begin(o) ==
    /\ pc = "idle"
    /\ seq < MaxId
    /\ Enter(o)

\* a replay pass that starts over when its batch is done
AfterReplay_Again == "replay_get"

\* where the control thread goes when process_pending_uploads returns
AfterReplay == IF op.kind = "heartbeat" THEN "hb_return" ELSE "ss_return"

\* a request that leaves the attachment out
Request_NoAttachment(id, type, data, file_data, o) ==
    [id |-> id, type |-> type, data |-> data, file_data |-> NoFile,
     accepted |-> Accepted(o)]

Request(id, type, data, file_data, o) ==
    [id |-> id, type |-> type, data |-> data, file_data |-> file_data,
     accepted |-> Accepted(o)]

----------------------------------------------------------------------------
\* APIClient.send_heartbeat (src/api_client.py).

\* the payload is built and the invocation reaches session.post
SendHeartbeat(app_name, window_title, is_idle) ==
    /\ UNCHANGED <<rejected, ret, unremoved, elsewhere>>
    /\ Begin([kind |-> "heartbeat",
              data |-> [timestamp |-> PyNum(clock), app_name |-> PyStr(app_name),
                        window_title |-> PyStr(window_title), is_idle |-> PyBool(is_idle)],
              file |-> NoFile, current_time |-> clock])
    /\ pc' = "hb_post"
    /\ result' = NoResult
    /\ IF store = {} THEN drainK' = 0 /\ drainReqs' = 0
                     ELSE UNCHANGED <<drainK, drainReqs>>
    /\ drainDone' = FALSE
    /\ UNCHANGED <<store, seq, last_capture_time, clock, lastIssued>>

\* a send_heartbeat that forgets the replay pass
HbAccepted_SkipsReplay == "hb_return"

\* after raise_for_status passes: self.process_pending_uploads()
HbAccepted == "replay_get"

\* session.post(heartbeat_url) and raise_for_status, with the except clauses up to the cache write
HbPost(o) ==
    /\ UNCHANGED <<rejected, ret, unremoved, elsewhere>>
    /\ pc = "hb_post"
    /\ live' = o
    /\ reqs' = Append(reqs, Request(0, "heartbeat", op.data, NoFile, o))
    /\ IF o.exc
       THEN pc' = "hb_cache" /\ UNCHANGED <<result, drainK, drainReqs, drainDone>>
       ELSE IF IsHTTPError(o)
       THEN IF o.status = 401
            THEN Finish(Raised("HTTPError"), o, fault, reqs')
            ELSE IF Is5xx(o)
            THEN pc' = "hb_cache" /\ UNCHANGED <<result, drainK, drainReqs, drainDone>>
            ELSE Finish(Raised("HTTPError"), o, fault, reqs')
       ELSE pc' = HbAccepted /\ UNCHANGED <<result, drainK, drainReqs, drainDone>>
    /\ UNCHANGED <<store, seq, last_capture_time, clock, op, batch, bi, store0, fault,
                   passes, removes, lastIssued>>

\* handlers that both re-raise after the cache write
CacheResult_AlwaysRaises(lv) == Raised("HTTPError")

\* after the cache write: the HTTPError handler re-raises, the
\* RequestException handler returns {'status': 'cached', ...}
CacheResult(lv) == IF Is5xx(lv) THEN Raised("HTTPError") ELSE Returned("cached")

\* a handler whose cache write lets the storage error out
HbCache_StorageErrorEscapes(ok) ==
    /\ UNCHANGED <<rejected, ret, unremoved, elsewhere>>
    /\ pc = "hb_cache"
    /\ add_item(ok, "heartbeat", op.data, NoFile)
    /\ fault' = (fault \/ ~ok)
    /\ Finish(IF ok THEN CacheResult(live) ELSE Raised("sqlite3.Error"), live, fault', reqs)
    /\ UNCHANGED <<last_capture_time, clock, op, live, batch, bi, reqs, store0,
                   passes, removes, lastIssued>>

\* cache.add_item('heartbeat', payload), then raise (5xx) or return the cached status
HbCache(ok) ==
    /\ UNCHANGED <<rejected, ret, unremoved, elsewhere>>
    /\ pc = "hb_cache"
    /\ add_item(ok, "heartbeat", op.data, NoFile)
    /\ fault' = (fault \/ ~ok)
    /\ Finish(CacheResult(live), live, fault', reqs)
    /\ UNCHANGED <<last_capture_time, clock, op, live, batch, bi, reqs, store0,
                   passes, removes, lastIssued>>

\* return response.json(), after process_pending_uploads.  A body that is not
\* JSON raises requests.exceptions.JSONDecodeError, a RequestException (requests
\* 2.27 and later), which the second except clause catches.
HbReturn ==
    /\ UNCHANGED <<rejected, ret, unremoved, elsewhere>>
    /\ pc = "hb_return"
    /\ IF live.json
       THEN Finish(Returned("response"), live, fault, reqs)
       ELSE pc' = "hb_cache" /\ UNCHANGED <<result, drainK, drainReqs, drainDone>>
    /\ UNCHANGED <<store, seq, last_capture_time, clock, op, live, batch, bi, reqs, store0,
                   fault, passes, removes, lastIssued>>

----------------------------------------------------------------------------
\* APIClient.upload_screenshot (src/api_client.py).

\* metadata or {}, then device_id and timestamp are set
Merge(metadata, t) ==
    [k \in DOMAIN metadata \cup {"device_id", "timestamp"} |->
        IF k = "device_id" THEN PyStr(DEVICE_ID)
        ELSE IF k = "timestamp" THEN PyNum(t) ELSE metadata[k]]

\* the metadata arguments: none (None or {}), or a dictionary
Metas == {<<>>}

\* the rate check; a call that passes it reaches session.post
UploadScreenshot(image_bytes, metadata) ==
    /\ UNCHANGED <<rejected, ret, unremoved, elsewhere>>
    /\ Begin([kind |-> "screenshot", data |-> Merge(metadata, clock),
              file |-> File(image_bytes), current_time |-> clock])
    /\ IF clock - last_capture_time < min_capture_interval
       THEN /\ pc' = "done"
            /\ result' = RateLimited(min_capture_interval - (clock - last_capture_time))
            /\ UNCHANGED <<drainK, drainReqs>>
       ELSE /\ pc' = "ss_post"
            /\ result' = NoResult
            /\ IF store = {} THEN drainK' = 0 /\ drainReqs' = 0
                             ELSE UNCHANGED <<drainK, drainReqs>>
    /\ drainDone' = FALSE
    /\ UNCHANGED <<store, seq, last_capture_time, clock, lastIssued>>

\* a 422 branch that re-raises like the 413 branch
Rejected422_Raises(o) == Raised("HTTPError")

\* the 422 branch: return e.response.json(); a body that is not JSON raises
\* JSONDecodeError out of the handler
Rejected422(o) == IF o.json THEN Returned("diagnostic") ELSE Raised("JSONDecodeError")

\* session.post(capture_url), last_capture_time, raise_for_status and
\* response.json(), with the except clauses up to the cache write
SsPost(o) ==
    /\ UNCHANGED <<rejected, ret, unremoved, elsewhere>>
    /\ pc = "ss_post"
    /\ live' = o
    /\ reqs' = Append(reqs, Request(0, "screenshot", op.data, op.file, o))
    /\ lastIssued' = op.current_time
    /\ last_capture_time' = IF o.exc THEN last_capture_time ELSE op.current_time
    /\ IF o.exc
       THEN pc' = "ss_cache" /\ UNCHANGED <<result, drainK, drainReqs, drainDone>>
       ELSE IF IsHTTPError(o)
       THEN IF o.status = 401
            THEN Finish(Raised("HTTPError"), o, fault, reqs')
            ELSE IF o.status = 422
            THEN Finish(Rejected422(o), o, fault, reqs')
            ELSE IF o.status = 413
            THEN Finish(Raised("HTTPError"), o, fault, reqs')
            ELSE IF Is5xx(o)
            THEN pc' = "ss_cache" /\ UNCHANGED <<result, drainK, drainReqs, drainDone>>
            ELSE Finish(Raised("HTTPError"), o, fault, reqs')
       ELSE IF o.json
       THEN pc' = "replay_get" /\ UNCHANGED <<result, drainK, drainReqs, drainDone>>
       ELSE pc' = "ss_cache" /\ UNCHANGED <<result, drainK, drainReqs, drainDone>>
    /\ UNCHANGED <<store, seq, clock, op, batch, bi, store0, fault,
                   passes, removes>>

\* cache.add_item('screenshot', data, image_bytes), then raise (5xx) or return the cached status
SsCache(ok) ==
    /\ UNCHANGED <<rejected, ret, unremoved, elsewhere>>
    /\ pc = "ss_cache"
    /\ add_item(ok, "screenshot", op.data, op.file)
    /\ fault' = (fault \/ ~ok)
    /\ Finish(CacheResult(live), live, fault', reqs)
    /\ UNCHANGED <<last_capture_time, clock, op, live, batch, bi, reqs, store0,
                   passes, removes, lastIssued>>

\* return result, after process_pending_uploads
SsReturn ==
    /\ UNCHANGED <<rejected, ret, unremoved, elsewhere>>
    /\ pc = "ss_return"
    /\ Finish(Returned("response"), live, fault, reqs)
    /\ UNCHANGED <<store, seq, last_capture_time, clock, op, live, batch, bi, reqs, store0,
                   fault, passes, removes, lastIssued>>

----------------------------------------------------------------------------
\* APIClient.process_pending_uploads (src/api_client.py).

\* pending_items = cache.get_pending_items(limit=5); nothing pending: return
GetPending(ok) ==
    /\ UNCHANGED <<rejected, ret, unremoved, elsewhere>>
    /\ pc = "replay_get"
    /\ passes' = passes + 1
    /\ fault' = (fault \/ ~ok)
    /\ \E b \in get_pending_items(ok, ReplayLimit) :
          /\ batch' = b
          /\ IF b = <<>>
             THEN pc' = AfterReplay /\ bi' = 0
             ELSE pc' = "replay_post" /\ bi' = 1
    /\ UNCHANGED <<store, seq, last_capture_time, clock, op, live, result, reqs, store0,
                   removes, hist>>

\* a replay loop whose except clause goes on to the next item (no break)
ReplayPost_NoBreak(o) ==
    /\ pc = "replay_post"
    /\ rejected' = IF Terminal(o) /\ batch[bi].type \in {"heartbeat", "screenshot"}
                   THEN batch[bi].id ELSE rejected
    /\ UNCHANGED <<ret, unremoved, elsewhere>>
    /\ LET item == batch[bi]
       IN IF item.type \in {"heartbeat", "screenshot"}
          THEN /\ reqs' = Append(reqs, Request(item.id, item.type, item.data, item.file_data, o))
               /\ IF RaisesInReplay(o)
                  THEN IF bi < Len(batch)
                       THEN pc' = "replay_post" /\ bi' = bi + 1
                       ELSE pc' = AfterReplay /\ bi' = bi
                  ELSE pc' = "replay_remove" /\ bi' = bi
          ELSE reqs' = reqs /\ pc' = "replay_remove" /\ bi' = bi
    /\ UNCHANGED <<store, seq, last_capture_time, clock, op, live, batch, result, store0,
                   fault, passes, removes, hist>>

\* the request of the loop body for batch[bi]; an exception ends the loop
\* (break).  An item that is neither a heartbeat nor a screenshot matches no
\* branch of the if / elif: no request is made and the loop body goes on to
\* remove_item.
ReplayPost(o) ==
    /\ pc = "replay_post"
    /\ rejected' = IF Terminal(o) /\ batch[bi].type \in {"heartbeat", "screenshot"}
                   THEN batch[bi].id ELSE rejected
    /\ UNCHANGED <<ret, unremoved, elsewhere>>
    /\ LET item == batch[bi]
       IN IF item.type \in {"heartbeat", "screenshot"}
          THEN /\ reqs' = Append(reqs, Request(item.id, item.type, item.data, item.file_data, o))
               /\ IF RaisesInReplay(o)
                  THEN pc' = AfterReplay
                  ELSE pc' = "replay_remove"
          ELSE reqs' = reqs /\ pc' = "replay_remove"
    /\ UNCHANGED <<store, seq, last_capture_time, clock, op, live, batch, bi, result, store0,
                   fault, passes, removes, hist>>

\* cache.remove_item(item_id) (its result is not looked at), then the next item
ReplayRemove(ok) ==
    /\ pc = "replay_remove"
    /\ rejected' = IF ok /\ batch[bi].id = rejected THEN 0 ELSE rejected
    /\ unremoved' = IF ok THEN (IF batch[bi].id = unremoved THEN 0 ELSE unremoved)
                    ELSE (IF unremoved = 0 THEN batch[bi].id ELSE unremoved)
    /\ UNCHANGED <<ret, elsewhere>>
    /\ LET item == batch[bi]
       IN /\ store' = IF ok THEN remove_item(store, item.id) ELSE store
          /\ removes' = Append(removes, [id |-> item.id, ok |-> ok])
    /\ fault' = (fault \/ ~ok)
    /\ IF bi < Len(batch)
       THEN pc' = "replay_post" /\ bi' = bi + 1
       ELSE pc' = AfterReplay /\ bi' = bi
    /\ UNCHANGED <<seq, last_capture_time, clock, op, live, batch, result, reqs, store0,
                   passes, hist>>

----------------------------------------------------------------------------
\* The caller (the tracker loop) has the result or the exception of the
\* invocation and goes on; the next invocation starts from here.
Resume ==
    /\ UNCHANGED <<rejected, ret, unremoved, elsewhere>>
    /\ pc = "done"
    /\ pc' = "idle"
    /\ op' = NoOp
    /\ live' = NoOutcome
    /\ batch' = <<>>
    /\ bi' = 0
    /\ result' = NoResult
    /\ reqs' = <<>>
    /\ store0' = {}
    /\ fault' = FALSE
    /\ passes' = 0
    /\ removes' = <<>>
    /\ drainDone' = FALSE
    /\ drainK' = IF drainDone THEN -1 ELSE drainK
    /\ drainReqs' = IF drainDone THEN 0 ELSE drainReqs
    /\ UNCHANGED <<store, seq, last_capture_time, clock, lastIssued>>

\* the caller never got a result: the process died
Crashed == [how |-> "crash", what |-> "none", retry_after |-> 0]

\* a queue kept in memory only: a crash loses it
Crash_InMemoryQueue ==
    /\ UNCHANGED <<clock, rejected, ret, unremoved, elsewhere>>
    /\ store' = {}
    /\ seq' = 0
    /\ pc' = "idle"
    /\ op' = NoOp
    /\ live' = NoOutcome
    /\ batch' = <<>>
    /\ bi' = 0
    /\ result' = Crashed
    /\ reqs' = <<>>
    /\ store0' = {}
    /\ fault' = FALSE
    /\ passes' = 0
    /\ removes' = <<>>
    /\ last_capture_time' = 0
    /\ lastIssued' = 0
    /\ drainK' = -1
    /\ drainReqs' = 0
    /\ drainDone' = FALSE

\* a client that keeps last_capture_time across a restart
Crash_KeepsRateLimiter ==
    /\ UNCHANGED <<store, seq, clock, rejected, ret, unremoved, elsewhere, last_capture_time>>
    /\ pc' = "idle"
    /\ op' = NoOp
    /\ live' = NoOutcome
    /\ batch' = <<>>
    /\ bi' = 0
    /\ result' = Crashed
    /\ reqs' = <<>>
    /\ store0' = {}
    /\ fault' = FALSE
    /\ passes' = 0
    /\ removes' = <<>>
    /\ lastIssued' = 0
    /\ drainK' = -1
    /\ drainReqs' = 0
    /\ drainDone' = FALSE

\* The process is killed at any point (between two statements of an
\* invocation, or between invocations) and started again: the new APIClient
\* starts with last_capture_time = 0 and opens the same database file, where
\* every committed INSERT and DELETE is, and sqlite_sequence with them.
Crash ==
    /\ UNCHANGED <<store, seq, clock, rejected, ret, unremoved, elsewhere>>
    /\ pc' = "idle"
    /\ op' = NoOp
    /\ live' = NoOutcome
    /\ batch' = <<>>
    /\ bi' = 0
    /\ result' = Crashed
    /\ reqs' = <<>>
    /\ store0' = {}
    /\ fault' = FALSE
    /\ passes' = 0
    /\ removes' = <<>>
    /\ last_capture_time' = 0
    /\ lastIssued' = 0
    /\ drainK' = -1
    /\ drainReqs' = 0
    /\ drainDone' = FALSE

\* The administrative DataCache.clear_cache, between invocations; ok = FALSE:
\* the DELETE raises and clear_cache returns False.
ClearCache(ok) ==
    /\ rejected' = IF ok THEN 0 ELSE rejected
    /\ unremoved' = IF ok THEN 0 ELSE unremoved
    /\ UNCHANGED <<ret, elsewhere>>
    /\ pc = "idle"
    /\ store # {}
    /\ store' = IF ok THEN clear_cache(store) ELSE store
    /\ drainK' = -1
    /\ drainReqs' = 0
    /\ drainDone' = FALSE
    /\ UNCHANGED <<seq, last_capture_time, clock, pc, op, live, batch, bi, result, reqs,
                   store0, fault, passes, removes, lastIssued>>

\* The clock moves between invocations (an invocation reads time.time() when
\* it starts and once more in add_item; the two readings are taken as one).
ClockRead == pc = "idle"

\* The wall clock: time passes.
Tick ==
    /\ UNCHANGED <<rejected, ret, unremoved, elsewhere>>
    /\ ClockRead
    /\ \E t \in Times : t > clock /\ clock' = t
    /\ UNCHANGED <<store, seq, last_capture_time, pc, op, live, batch, bi, result, reqs,
                   store0, fault, passes, removes, hist>>

\* The wall clock is set back (time.time() is not monotonic).
ClockBack ==
    /\ UNCHANGED <<rejected, ret, unremoved, elsewhere>>
    /\ ClockRead
    /\ \E t \in Times : t < clock /\ clock' = t
    /\ UNCHANGED <<store, seq, last_capture_time, pc, op, live, batch, bi, result, reqs,
                   store0, fault, passes, removes, hist>>

----------------------------------------------------------------------------
\* APIClient.__init__ on an empty cache database.
Init ==
    /\ store = {}
    /\ seq = 0
    /\ last_capture_time = 0
    /\ clock \in Times
    /\ pc = "idle"
    /\ op = NoOp
    /\ live = NoOutcome
    /\ batch = <<>>
    /\ bi = 0
    /\ result = NoResult
    /\ reqs = <<>>
    /\ store0 = {}
    /\ fault = FALSE
    /\ passes = 0
    /\ removes = <<>>
    /\ lastIssued = 0
    /\ drainK = 0
    /\ drainReqs = 0
    /\ drainDone = FALSE
    /\ rejected = 0
    /\ ret = NoRet
    /\ unremoved = 0
    /\ tray = NoTray
    /\ peer = NoPeer

Next ==
    \/ \E a \in Apps, w \in Titles, i \in Idles : SendHeartbeat(a, w, i)
    \/ \E o \in Outcomes : HbPost(o)
    \/ \E ok \in BOOLEAN : HbCache(ok)
    \/ HbReturn
    \/ \E b \in Images, m \in Metas : UploadScreenshot(b, m)
    \/ \E o \in Outcomes : SsPost(o)
    \/ \E ok \in BOOLEAN : SsCache(ok)
    \/ SsReturn
    \/ \E ok \in BOOLEAN : GetPending(ok)
    \/ \E o \in Outcomes : ReplayPost(o)
    \/ \E ok \in BOOLEAN : ReplayRemove(ok)
    \/ Resume
    \/ \E ok \in BOOLEAN : ClearCache(ok)
    \/ Crash
    \/ Tick
    \/ ClockBack

Spec == Init /\ [][Next]_vars

----------------------------------------------------------------------------
\* DataCache called directly (src/data_cache.py, as src/tests/test_data_cache.py
\* does): no invocation of the client is running.

\* the state of the client, which the DataCache methods do not touch
client == <<last_capture_time, pc, op, live, batch, bi, result, reqs, fault, passes,
            removes, lastIssued, drainK, drainReqs, drainDone, rejected,
            unremoved, tray, peer>>

\* data arguments: a JSON-shaped dictionary, one with a tuple, one with bytes
JsonShaped == [key |-> PyStr("value")]

WithTuple == [key |-> PyTuple(<<1, 2>>)]

WithBytes == [key |-> PyBytes(<<7>>)]

\* (item_type, data, file_data) arguments of add_item
Entries ==
    {<<"heartbeat", JsonShaped, NoFile>>, <<"heartbeat", WithBytes, NoFile>>}
        \cup {<<"screenshot", d, File(b)>> : d \in {JsonShaped, WithTuple}, b \in Images}

\* limit arguments
Limits == {1, 2}

\* os.path.getsize(db_path): 0 stands for a file that cannot be read
Sizes == {0, 4096}

\* cache.add_item(item_type, data, file_data)
CallAddItem(ok, type, data, file_data) ==
    /\ pc = "idle"
    /\ seq < MaxId
    /\ store0' = store
    /\ add_item(ok, type, data, file_data)
    /\ ret' = Ret("add_item", <<type, data, file_data>>, 0, ~Stored(ok, data),
                  Stored(ok, data), <<>>, 0, 0)
    /\ UNCHANGED <<clock, client>>

\* cache.get_pending_items(limit)
CallGetPendingItems(ok, limit) ==
    /\ pc = "idle"
    /\ store0' = store
    /\ \E b \in get_pending_items(ok, limit) :
          ret' = Ret("get_pending_items", <<>>, limit, ~ok, FALSE, b, 0, 0)
    /\ UNCHANGED <<store, seq, clock, client>>

\* cache.remove_item(item_id)
CallRemoveItem(ok, item_id) ==
    /\ pc = "idle"
    /\ store0' = store
    /\ store' = IF ok THEN remove_item(store, item_id) ELSE store
    /\ ret' = Ret("remove_item", <<>>, item_id, ~ok, ok, <<>>, 0, 0)
    /\ UNCHANGED <<seq, clock, client>>

\* cache.clear_cache()
CallClearCache(ok) ==
    /\ pc = "idle"
    /\ store0' = store
    /\ store' = IF ok THEN clear_cache(store) ELSE store
    /\ ret' = Ret("clear_cache", <<>>, 0, ~ok, ok, <<>>, 0, 0)
    /\ UNCHANGED <<seq, clock, client>>

\* a count taken from sqlite_sequence: the rows ever inserted
get_stats_CountsInserts(ok, size) ==
    IF ok THEN [count |-> seq, size_bytes |-> size]
          ELSE [count |-> 0, size_bytes |-> size]

\* stats = {'count': 0, 'size_bytes': 0}, then getsize and SELECT COUNT(*)
get_stats(ok, size) ==
    IF ok THEN [count |-> Cardinality(store), size_bytes |-> size]
          ELSE [count |-> 0, size_bytes |-> size]

\* cache.get_stats(); a SELECT that succeeded read an existing file
CallGetStats(ok, size) ==
    /\ pc = "idle"
    /\ ok => size > 0
    /\ store0' = store
    /\ ret' = Ret("get_stats", <<>>, 0, ~ok, FALSE, <<>>,
                  get_stats(ok, size).count, get_stats(ok, size).size_bytes)
    /\ UNCHANGED <<store, seq, clock, client>>

\* The process ends (or is killed) between two calls and starts again:
\* DataCache.__init__ runs CREATE TABLE IF NOT EXISTS on the database file.
Reopen(ok) ==
    /\ pc = "idle"
    /\ ret # NoRet
    /\ store0' = store
    /\ ret' = Ret("_init_db", <<>>, 0, ~ok, FALSE, <<>>, 0, 0)
    /\ UNCHANGED <<store, seq, clock, client>>

CacheNext ==
    \/ \E ok \in BOOLEAN, e \in Entries : CallAddItem(ok, e[1], e[2], e[3])
    \/ \E ok \in BOOLEAN, n \in Limits : CallGetPendingItems(ok, n)
    \/ \E ok \in BOOLEAN, i \in 1..MaxId : CallRemoveItem(ok, i)
    \/ \E ok \in BOOLEAN : CallClearCache(ok)
    \/ \E ok \in BOOLEAN, z \in Sizes : CallGetStats(ok, z)
    \/ \E ok \in BOOLEAN : Reopen(ok)
    \/ Tick
    \/ ClockBack

CacheSpec == Init /\ [][CacheNext]_vars

----------------------------------------------------------------------------
\* create_client (src/api_client.py) at the start of a process whose database
\* file holds the rows that earlier processes left, then the first
\* upload_screenshot of the client it returned.

\* the largest backlog a process starts with
MaxBacklog == 6

\* the data column of a row damaged on disk (its text cut short): json.loads
\* raises JSONDecodeError on it
Damaged(t) == [valid |-> FALSE, value |-> t.value]

\* the payload send_heartbeat builds for test_connection
TestHeartbeat(t) ==
    [timestamp |-> PyNum(t), app_name |-> PyStr("PhoenixTracker"),
     window_title |-> PyStr("Connection Test"), is_idle |-> PyBool(TRUE)]

\* The i-th row an earlier process inserted, at time i: a heartbeat (odd i) or
\* a screenshot (even i), as add_item wrote it, or damaged since.
BacklogRow(i, corrupt) ==
    LET type == IF i % 2 = 1 THEN "heartbeat" ELSE "screenshot"
        data == IF type = "heartbeat"
                THEN [timestamp |-> PyNum(i),
                      app_name |-> PyStr(CHOOSE a \in Apps : TRUE),
                      window_title |-> PyStr(CHOOSE w \in Titles : TRUE),
                      is_idle |-> PyBool(CHOOSE b \in Idles : TRUE)]
                ELSE Merge(CHOOSE m \in Metas : TRUE, i)
    IN [id |-> i, timestamp |-> i, type |-> type,
        data |-> IF corrupt THEN Damaged(json_dumps(data)) ELSE json_dumps(data),
        file_data |-> IF type = "heartbeat" THEN NoFile
                      ELSE File(CHOOSE b \in Images : TRUE)]

\* the tables a process can find: rows 1..n, any of them damaged
Backlogs ==
    UNION {{{BacklogRow(i, i \in C) : i \in 1..n} : C \in SUBSET (1..n)} :
           n \in 0..MaxBacklog}

\* APIClient.__init__ on the database file of earlier processes
StartupInit ==
    /\ store \in Backlogs
    /\ seq = Cardinality(store)
    /\ last_capture_time = 0
    /\ clock \in Times
    /\ pc = "idle"
    /\ op = NoOp
    /\ live = NoOutcome
    /\ batch = <<>>
    /\ bi = 0
    /\ result = NoResult
    /\ reqs = <<>>
    /\ store0 = {}
    /\ fault = FALSE
    /\ passes = 0
    /\ removes = <<>>
    /\ lastIssued = 0
    /\ drainK = -1
    /\ drainReqs = 0
    /\ drainDone = FALSE
    /\ rejected = 0
    /\ ret = NoRet
    /\ unremoved = 0
    /\ tray = NoTray
    /\ peer = NoPeer

\* test_connection: self.send_heartbeat("PhoenixTracker", "Connection Test", is_idle=True)
TestConnection ==
    /\ pc = "idle"
    /\ Enter([kind |-> "heartbeat", data |-> TestHeartbeat(clock),
              file |-> NoFile, current_time |-> clock])
    /\ pc' = "hb_post"
    /\ result' = NoResult
    /\ UNCHANGED <<store, seq, last_capture_time, clock, hist, rejected, ret, unremoved, elsewhere>>

\* return result.get('status') != 'failed', and except Exception: return False.
\* The body of an accepted heartbeat is taken to carry another status than 'failed'.
test_connection(res) == res.how = "return" /\ res.what # "failed"

\* test_connection returns
TestConnectionReturn ==
    /\ pc = "done"
    /\ op.kind = "heartbeat"
    /\ pc' = "tested"
    /\ result' = Returned(IF test_connection(result) THEN "True" ELSE "False")
    /\ UNCHANGED <<store, seq, last_capture_time, clock, op, live, batch, bi, reqs, store0,
                   fault, passes, removes, hist, rejected, ret, unremoved, elsewhere>>

\* if client.test_connection(): return client, else return None
create_client(connected) == IF connected THEN "client" ELSE "None"

\* create_client returns
CreateClient ==
    /\ pc = "tested"
    /\ pc' = "created"
    /\ result' = Returned(create_client(result.what = "True"))
    /\ UNCHANGED <<store, seq, last_capture_time, clock, op, live, batch, bi, reqs, store0,
                   fault, passes, removes, hist, rejected, ret, unremoved, elsewhere>>

\* the first upload_screenshot on the client that create_client returned
FirstUpload(image_bytes, metadata) ==
    /\ pc = "created"
    /\ result.what = "client"
    /\ Enter([kind |-> "screenshot", data |-> Merge(metadata, clock),
              file |-> File(image_bytes), current_time |-> clock])
    /\ IF clock - last_capture_time < min_capture_interval
       THEN /\ pc' = "done"
            /\ result' = RateLimited(min_capture_interval - (clock - last_capture_time))
       ELSE /\ pc' = "ss_post"
            /\ result' = NoResult
    /\ UNCHANGED <<store, seq, last_capture_time, clock, hist, rejected, ret, unremoved, elsewhere>>

StartupNext ==
    \/ TestConnection
    \/ \E o \in Outcomes : HbPost(o)
    \/ \E ok \in BOOLEAN : HbCache(ok)
    \/ HbReturn
    \/ TestConnectionReturn
    \/ CreateClient
    \/ \E b \in Images, m \in Metas : FirstUpload(b, m)
    \/ \E o \in Outcomes : SsPost(o)
    \/ \E ok \in BOOLEAN : SsCache(ok)
    \/ SsReturn
    \/ \E ok \in BOOLEAN : GetPending(ok)
    \/ \E o \in Outcomes : ReplayPost(o)
    \/ \E ok \in BOOLEAN : ReplayRemove(ok)

StartupSpec == StartupInit /\ [][StartupNext]_vars

----------------------------------------------------------------------------
\* The tracker loop of a process that starts on a backlog, from the point on
\* where the remote accepts every request (2xx with a JSON body) and storage
\* works: send_heartbeat is called again and again.

\* the answers of a remote that accepts
AcceptedJson == {Resp(200, TRUE)}

\* the loop calls send_heartbeat
KeepSending(app_name, window_title, is_idle) ==
    /\ pc = "idle"
    /\ Enter([kind |-> "heartbeat",
              data |-> [timestamp |-> PyNum(clock), app_name |-> PyStr(app_name),
                        window_title |-> PyStr(window_title), is_idle |-> PyBool(is_idle)],
              file |-> NoFile, current_time |-> clock])
    /\ pc' = "hb_post"
    /\ result' = NoResult
    /\ UNCHANGED <<store, seq, last_capture_time, clock, hist, rejected, ret, unremoved,
                   elsewhere>>

DrainNext ==
    \/ \E a \in Apps, w \in Titles, i \in Idles : KeepSending(a, w, i)
    \/ \E o \in AcceptedJson : HbPost(o)
    \/ HbReturn
    \/ GetPending(TRUE)
    \/ \E o \in AcceptedJson : ReplayPost(o)
    \/ ReplayRemove(TRUE)
    \/ Resume

\* the loop goes on for ever (time.sleep(5) between two cycles), and every
\* call it makes returns
DrainSpec == StartupInit /\ [][DrainNext]_vars /\ WF_vars(DrainNext)

----------------------------------------------------------------------------
\* create_client on a database file whose rows were written by add_item with
\* any type string (add_item does not look at item_type; the tests write
\* "test_type").

\* the i-th row, of the given type, as add_item wrote it at time i
LegacyRow(i, type) ==
    [id |-> i, timestamp |-> i, type |-> type,
     data |-> json_dumps(IF type = "heartbeat"
                         THEN [timestamp |-> PyNum(i),
                               app_name |-> PyStr(CHOOSE a \in Apps : TRUE),
                               window_title |-> PyStr(CHOOSE w \in Titles : TRUE),
                               is_idle |-> PyBool(CHOOSE b \in Idles : TRUE)]
                         ELSE IF type = "screenshot"
                         THEN Merge(CHOOSE m \in Metas : TRUE, i)
                         ELSE JsonShaped),
     file_data |-> IF type = "screenshot" THEN File(CHOOSE b \in Images : TRUE)
                   ELSE NoFile]

\* item_type arguments
Types == {"heartbeat", "screenshot", "test_type"}

\* the tables a process can find: rows 1..n of any types
LegacyBacklogs ==
    UNION {{{LegacyRow(i, f[i]) : i \in 1..n} : f \in [1..n -> Types]} : n \in 0..MaxId}

\* APIClient.__init__ on such a database file
LegacyInit ==
    /\ store \in LegacyBacklogs
    /\ seq = Cardinality(store)
    /\ last_capture_time = 0
    /\ clock \in Times
    /\ pc = "idle"
    /\ op = NoOp
    /\ live = NoOutcome
    /\ batch = <<>>
    /\ bi = 0
    /\ result = NoResult
    /\ reqs = <<>>
    /\ store0 = {}
    /\ fault = FALSE
    /\ passes = 0
    /\ removes = <<>>
    /\ lastIssued = 0
    /\ drainK = -1
    /\ drainReqs = 0
    /\ drainDone = FALSE
    /\ rejected = 0
    /\ ret = NoRet
    /\ unremoved = 0
    /\ tray = NoTray
    /\ peer = NoPeer

LegacySpec == LegacyInit /\ [][StartupNext]_vars

----------------------------------------------------------------------------
\* The tray application (src/tray_app.py): the menu handlers run on the
\* thread of the icon, tracker_loop on a thread of its own that start_tracking
\* creates.

\* handlers called in one run of the application
MaxCalls == 5

\* the state of the process outside the tray application object
outside == <<store, seq, last_capture_time, clock, pc, op, live, batch, bi, result,
             reqs, store0, fault, passes, removes, hist, rejected, ret, unremoved, peer>>

\* the keyword arguments start_tracking passes to create_client
\* (src/tray_app.py:210-214)
StartKeywords == {"base_url", "device_id", "verify_ssl"}

CallCreateClient_AcceptsKeywords(kwargs) == "client"

\* calling create_client, declared without parameters (src/api_client.py:228),
\* with keyword arguments: Python raises TypeError before the body runs
CallCreateClient(kwargs) == IF kwargs = {} THEN "client" ELSE "TypeError"

Went(t) == [tray |-> t, raised |-> FALSE]

\* the thread object a call of start_tracking would create
NewThread(t) == Len(t.calls) + 1

\* start_tracking; saved: the settings window it opens saves a configuration,
\* entered: the token dialog it opens stores a token
start_tracking(t, saved, entered) ==
    IF t.running THEN Went(t)
    ELSE IF ~t.configured THEN Went([t EXCEPT !.configured = saved])
    ELSE IF ~t.token THEN Went([t EXCEPT !.token = entered])
    ELSE IF CallCreateClient(StartKeywords) = "TypeError"
         THEN [tray |-> t, raised |-> TRUE]
         ELSE Went([t EXCEPT !.api_client = "client",
                             !.running = TRUE,
                             !.tracker_thread = NewThread(t),
                             !.alive = @ \cup {NewThread(t)}])

\* stop_tracking; joined: the loop reads running = False and ends within the
\* five seconds of join (it does not when it is in a sleep of 60 or 300 s)
stop_tracking(t, joined) ==
    [t EXCEPT !.running = FALSE,
              !.alive = IF t.tracker_thread # 0 /\ joined
                        THEN @ \ {t.tracker_thread} ELSE @]

on_settings_saved(t, joined, saved, entered) ==
    IF t.running
    THEN start_tracking(stop_tracking(t, joined), saved, entered)
    ELSE Went(t)

toggle_tracking(t, joined, saved, entered) ==
    IF t.running
    THEN Went(stop_tracking(t, joined))
    ELSE start_tracking(t, saved, entered)

Called(t, name, res) ==
    [res.tray EXCEPT !.calls = Append(t.calls, [op |-> name, raised |-> res.raised])]

Handler == tray.phase = "menu" /\ Len(tray.calls) < MaxCalls

TrayInit ==
    /\ store = {}
    /\ seq = 0
    /\ last_capture_time = 0
    /\ clock = 100
    /\ pc = "idle"
    /\ op = NoOp
    /\ live = NoOutcome
    /\ batch = <<>>
    /\ bi = 0
    /\ result = NoResult
    /\ reqs = <<>>
    /\ store0 = {}
    /\ fault = FALSE
    /\ passes = 0
    /\ removes = <<>>
    /\ lastIssued = 0
    /\ drainK = 0
    /\ drainReqs = 0
    /\ drainDone = FALSE
    /\ rejected = 0
    /\ ret = NoRet
    /\ unremoved = 0
    /\ tray \in {TrayConstructed(c, k) : c \in BOOLEAN, k \in BOOLEAN}
    /\ peer = NoPeer

\* run(): the automatic start; an exception leaves run() and main() exits
Run(saved, entered) ==
    /\ tray.phase = "constructed"
    /\ LET res == IF tray.configured /\ tray.token
                  THEN start_tracking(tray, saved, entered) ELSE Went(tray)
       IN tray' = [Called(tray, "run", res) EXCEPT
                      !.phase = IF res.raised THEN "exited" ELSE "menu"]
    /\ UNCHANGED outside

ToggleTracking(joined, saved, entered) ==
    /\ Handler
    /\ tray' = Called(tray, "toggle_tracking", toggle_tracking(tray, joined, saved, entered))
    /\ UNCHANGED outside

\* the settings window saves (configured: whether what it stored is a
\* configuration) and calls on_save, whose exceptions it catches
\* (src/gui_settings.py:763-768)
SettingsSaved(configured, joined, saved, entered) ==
    /\ Handler
    /\ LET t == [tray EXCEPT !.configured = configured]
       IN tray' = Called(tray, "on_settings_saved", on_settings_saved(t, joined, saved, entered))
    /\ UNCHANGED outside

\* setup_token from the menu
SetupToken(entered) ==
    /\ Handler
    /\ tray' = Called(tray, "setup_token", Went([tray EXCEPT !.token = @ \/ entered]))
    /\ UNCHANGED outside

ExitApp(joined) ==
    /\ Handler
    /\ tray' = [Called(tray, "exit_app", Went(stop_tracking(tray, joined))) EXCEPT
                   !.phase = "exited"]
    /\ UNCHANGED outside

TrayNext ==
    \/ \E s \in BOOLEAN, e \in BOOLEAN : Run(s, e)
    \/ \E j \in BOOLEAN, s \in BOOLEAN, e \in BOOLEAN : ToggleTracking(j, s, e)
    \/ \E c \in BOOLEAN, j \in BOOLEAN, s \in BOOLEAN, e \in BOOLEAN : SettingsSaved(c, j, s, e)
    \/ \E e \in BOOLEAN : SetupToken(e)
    \/ \E j \in BOOLEAN : ExitApp(j)

TraySpec == TrayInit /\ [][TrayNext]_vars

----------------------------------------------------------------------------
\* Two processes on one cache database: the first is the tracker process of
\* the specifications above, the second (peer) runs send_heartbeat of its own
\* APIClient over the same table.  Each DataCache method is one transaction
\* on a connection of its own, so the two interleave between queue operations
\* and requests.  Storage works.

\* the remote is unreachable, accepts, or refuses the payload
SharedOutcomes == {NetErr, Resp(200, TRUE), Resp(422, TRUE)}

\* what the second process does not touch
first == <<last_capture_time, pc, op, live, batch, bi, result, reqs, store0, fault,
           passes, removes, hist, rejected, ret, unremoved, tray>>

PeerIdle == PeerAt("idle", [timestamp |-> PyNum(0)], NoOutcome, <<>>, 0, <<>>, <<>>)

SharedInit ==
    /\ store = {}
    /\ seq = 0
    /\ last_capture_time = 0
    /\ clock = 100
    /\ pc = "idle"
    /\ op = NoOp
    /\ live = NoOutcome
    /\ batch = <<>>
    /\ bi = 0
    /\ result = NoResult
    /\ reqs = <<>>
    /\ store0 = {}
    /\ fault = FALSE
    /\ passes = 0
    /\ removes = <<>>
    /\ lastIssued = 0
    /\ drainK = -1
    /\ drainReqs = 0
    /\ drainDone = FALSE
    /\ rejected = 0
    /\ ret = NoRet
    /\ unremoved = 0
    /\ tray = NoTray
    /\ peer = PeerIdle

\* the loop of the first process calls send_heartbeat
FirstSendHeartbeat(app_name, window_title, is_idle) ==
    /\ seq < MaxId
    /\ KeepSending(app_name, window_title, is_idle)

\* send_heartbeat in the second process: the payload is built
PeerSendHeartbeat(app_name, window_title, is_idle) ==
    /\ peer.pc = "idle"
    /\ seq < MaxId
    /\ peer' = PeerAt("hb_post",
                      [timestamp |-> PyNum(clock), app_name |-> PyStr(app_name),
                       window_title |-> PyStr(window_title), is_idle |-> PyBool(is_idle)],
                      NoOutcome, <<>>, 0, <<>>, <<>>)
    /\ UNCHANGED <<store, seq, clock, first>>

\* session.post and raise_for_status, up to the cache write, the replay pass
\* or the exception that leaves send_heartbeat
PeerHbPost(o) ==
    /\ peer.pc = "hb_post"
    /\ LET rq == Append(peer.reqs, Request(0, "heartbeat", peer.data, NoFile, o))
       IN peer' = IF o.exc \/ Is5xx(o)
                  THEN [peer EXCEPT !.pc = "hb_cache", !.live = o, !.reqs = rq]
                  ELSE IF IsHTTPError(o) THEN PeerIdle
                  ELSE [peer EXCEPT !.pc = HbAccepted, !.live = o, !.reqs = rq]
    /\ UNCHANGED <<store, seq, clock, first>>

\* cache.add_item('heartbeat', payload); send_heartbeat returns or raises
PeerHbCache(ok) ==
    /\ peer.pc = "hb_cache"
    /\ add_item(ok, "heartbeat", peer.data, NoFile)
    /\ peer' = PeerIdle
    /\ UNCHANGED <<clock, first>>

\* get_pending_items(limit=5) of the replay pass
PeerGetPending(ok) ==
    /\ peer.pc = "replay_get"
    /\ \E b \in get_pending_items(ok, ReplayLimit) :
          peer' = IF b = <<>>
                  THEN [peer EXCEPT !.pc = "hb_return"]
                  ELSE [peer EXCEPT !.pc = "replay_post", !.batch = b, !.bi = 1]
    /\ UNCHANGED <<store, seq, clock, first>>

\* the request of the loop body; an exception ends the loop
PeerReplayPost(o) ==
    /\ peer.pc = "replay_post"
    /\ LET item == peer.batch[peer.bi]
       IN peer' = IF item.type \in {"heartbeat", "screenshot"}
                  THEN [peer EXCEPT
                          !.reqs = Append(@, Request(item.id, item.type, item.data,
                                                     item.file_data, o)),
                          !.pc = IF RaisesInReplay(o) THEN "hb_return" ELSE "replay_remove"]
                  ELSE [peer EXCEPT !.pc = "replay_remove"]
    /\ UNCHANGED <<store, seq, clock, first>>

\* cache.remove_item(item_id), then the next item
PeerReplayRemove(ok) ==
    /\ peer.pc = "replay_remove"
    /\ LET item == peer.batch[peer.bi]
       IN /\ store' = IF ok THEN remove_item(store, item.id) ELSE store
          /\ peer' = [peer EXCEPT
                        !.removes = Append(@, [id |-> item.id, ok |-> ok]),
                        !.pc = IF peer.bi < Len(peer.batch) THEN "replay_post" ELSE "hb_return",
                        !.bi = IF peer.bi < Len(peer.batch) THEN @ + 1 ELSE @]
    /\ UNCHANGED <<seq, clock, first>>

\* return response.json(); a body that is not JSON goes to the cache write
PeerHbReturn ==
    /\ peer.pc = "hb_return"
    /\ peer' = IF peer.live.json THEN PeerIdle ELSE [peer EXCEPT !.pc = "hb_cache"]
    /\ UNCHANGED <<store, seq, clock, first>>

SharedNext ==
    \/ \E a \in Apps, w \in Titles, i \in Idles : FirstSendHeartbeat(a, w, i)
    \/ \E o \in SharedOutcomes : HbPost(o)
    \/ HbCache(TRUE)
    \/ HbReturn
    \/ GetPending(TRUE)
    \/ \E o \in SharedOutcomes : ReplayPost(o)
    \/ ReplayRemove(TRUE)
    \/ Resume
    \/ Tick
    \/ \E a \in Apps, w \in Titles, i \in Idles : PeerSendHeartbeat(a, w, i)
    \/ \E o \in SharedOutcomes : PeerHbPost(o)
    \/ PeerHbCache(TRUE)
    \/ PeerGetPending(TRUE)
    \/ \E o \in SharedOutcomes : PeerReplayPost(o)
    \/ PeerReplayRemove(TRUE)
    \/ PeerHbReturn

SharedSpec == SharedInit /\ [][SharedNext]_vars

----------------------------------------------------------------------------
\* Properties.

\* ids of the events whose resend was answered 2xx in this invocation
AcceptedIds == {reqs[i].id : i \in {j \in 2..Len(reqs) : reqs[j].accepted}}

\* ids of the events deleted from the store in this invocation
RemovedIds == Ids(store0) \ Ids(store)

\* remove_item(id) was called in this invocation and failed
RemoveFailed(id) == \E j \in 1..Len(removes) : removes[j].id = id /\ ~removes[j].ok

\* the ids of batch positions a..b
BatchIds(a, b) == {batch[i].id : i \in a..b}

\* C1 (as claimed): after k >= 1 sends in a row from an empty queue whose live
\* attempt was transient, and one send whose live attempt and replayed requests
\* were all accepted (k at most the batch size, storage working), the queue is
\* empty and (k + 1) + k requests were made.
C1_DrainOnRecovery ==
    (drainDone /\ drainK >= 1 /\ drainK <= ReplayLimit)
        => (store = {} /\ drainReqs = (drainK + 1) + drainK)

\* C2: a send whose live attempt is transient, with storage working, appends
\* exactly one event: kind of the operation, the payload that was sent, the
\* image bytes for a screenshot and no attachment for a heartbeat; the events
\* queued before are unchanged.
C2_TransientEnqueuesOne ==
    (pc = "done" /\ Transient(live) /\ ~fault) =>
        \E r \in store :
            /\ r \notin store0
            /\ r.id \notin Ids(store0)
            /\ store = store0 \cup {r}
            /\ r.type = op.kind
            /\ reqs[1].data = op.data
            /\ json_ok(r.data)
            /\ json_loads(r.data) = op.data
            /\ r.file_data = (IF op.kind = "screenshot" THEN op.file ELSE NoFile)
            /\ r.file_data.some = (op.kind = "screenshot")

C2_Witness ==
    /\ pc = "done"
    /\ Transient(live)
    /\ ~fault
    /\ op.kind = "screenshot"
    /\ store0 # {}

\* C3 (as claimed): every transient live outcome, 5xx or network failure, ends
\* in a returned Queued result, never in an exception.
C3_TransientAbsorbed ==
    (pc = "done" /\ Transient(live)) => result = Returned("cached")

\* C3 (amended): a network failure ends in a returned Queued result; a 5xx
\* answer ends with the event enqueued (storage working) and the HTTPError
\* raised to the caller.
C3_NetworkAbsorbedServerErrorRaised ==
    pc = "done" =>
        /\ live.exc => result = Returned("cached")
        /\ (~live.exc /\ 500 <= live.status /\ live.status < 600) =>
              /\ result = Raised("HTTPError")
              /\ ~fault => Cardinality(store) = Cardinality(store0) + 1

C3_Witness ==
    /\ pc = "done"
    /\ op.kind = "heartbeat"
    /\ live.status = 503
    /\ result.how = "raise"
    /\ store # store0

\* C4: a send whose live attempt ends in 401 or 413 leaves the queue as it was.
C4_FatalNeverPersists ==
    (pc = "done" /\ Fatal(live)) => store = store0

C4_Witness ==
    /\ pc = "done"
    /\ op.kind = "heartbeat"
    /\ live.status = 413
    /\ store0 # {}

\* C5 (as claimed): the events removed from the store are exactly those whose
\* resend was acknowledged.
C5_RemovedIffAcknowledged ==
    pc = "done" => RemovedIds = AcceptedIds

\* C5 (amended): an event is removed only after a 2xx answer to a resend of it,
\* and an event whose resend was accepted is removed unless remove_item failed
\* with a storage error.
C5_RemovedOnlyIfAcknowledged ==
    /\ RemovedIds \subseteq AcceptedIds
    /\ pc = "done" => \A id \in AcceptedIds \ RemovedIds : RemoveFailed(id)

C5_Witness ==
    /\ pc = "done"
    /\ RemovedIds # {}
    /\ AcceptedIds \ RemovedIds # {}

\* C6 (as claimed): the batch read by the replay pass holds the oldest events
\* of the store in strictly ascending id order, whatever their timestamps
\* (stated here for stores whose timestamps are pairwise different).
C6_FifoOrder ==
    (/\ pc \in {"replay_post", "replay_remove"}
     /\ \A r1, r2 \in store0 : r1.timestamp = r2.timestamp => r1 = r2) =>
        /\ \A i, j \in 1..Len(batch) : i < j => batch[i].id < batch[j].id
        /\ \A id \in Ids(store0) \ BatchIds(1, Len(batch)) :
              \A b \in BatchIds(1, Len(batch)) : b < id

\* what C7 says of a pass whose j-th request is the first not accepted, given
\* what holds of the events before the j-th
BatchAbort(Before(_)) ==
    (pc = "done" /\ batch # <<>> /\ Len(reqs) >= 2 /\ ~reqs[Len(reqs)].accepted) =>
        LET j == Len(reqs) - 1
            n == Len(batch)
        IN /\ j <= n
           /\ \A i \in 1..j : reqs[i + 1].id = batch[i].id
           /\ \A i \in 1..(j - 1) : reqs[i + 1].accepted /\ Before(batch[i].id)
           /\ \A i \in j..n : \E r \in store : r.id = batch[i].id /\ r \in store0
           /\ \A i \in 2..Len(reqs) : reqs[i].id \notin BatchIds(j + 1, n)

Gone(id) == id \notin Ids(store)

GoneUnlessRemoveFailed(id) == id \notin Ids(store) \/ RemoveFailed(id)

\* C7 (as claimed): if the request for ej is the first one not accepted, then
\* e1..e(j-1) have been removed, ej..en are in the queue unchanged and no
\* request was attempted for e(j+1)..en.
C7_BatchAbort == BatchAbort(Gone)

\* C7 (amended): the same, where each of e1..e(j-1) has been removed unless its
\* remove_item failed with a storage error.
C7_BatchAbortStorage == BatchAbort(GoneUnlessRemoveFailed)

C7_Witness ==
    /\ pc = "done"
    /\ Len(batch) >= 2
    /\ Len(reqs) = 3
    /\ ~reqs[3].accepted
    /\ batch[1].id \notin Ids(store)
    /\ batch[2].id \in Ids(store)

\* C8 (as claimed): after a send whose live attempt was transient and was
\* enqueued, a replay pass is performed in the same invocation.
C8_ReplayAfterTransient ==
    (pc = "done" /\ Transient(live) /\ ~fault) => passes = 1

\* C8 (amended): a replay pass is performed only after an accepted live send
\* (for upload_screenshot, one whose response body parsed); after a transient
\* live outcome the invocation makes its one request and reads no batch.
C8_ReplayOnlyAfterAccepted ==
    pc = "done" =>
        /\ Transient(live) => (passes = 0 /\ Len(reqs) = 1)
        /\ passes >= 1 => Accepted(live)
        /\ (Accepted(live) /\ (op.kind = "heartbeat" \/ live.json)) => passes = 1

C8_Witness ==
    /\ pc = "done"
    /\ Transient(live)
    /\ store0 # {}
    /\ store # store0
    /\ passes = 0

\* C9: a send whose live attempt ends in 401 or 413 issues exactly one request
\* and performs no dequeue_batch and no remove.
C9_NoReplayAfterFatal ==
    (pc = "done" /\ Fatal(live)) => (Len(reqs) = 1 /\ passes = 0 /\ removes = <<>>)

C9_Witness ==
    /\ pc = "done"
    /\ op.kind = "screenshot"
    /\ live.status = 401
    /\ store0 # {}

\* C10 (as claimed): an upload_screenshot call made within the minimum interval
\* of an earlier call that passed the rate check and issued its request does
\* not pass the rate check itself.
C10_SecondCallRateLimited ==
    (pc = "ss_post" /\ lastIssued # 0) =>
        ~(/\ op.current_time - lastIssued < min_capture_interval
          /\ lastIssued - op.current_time < min_capture_interval)

\* C11 (as claimed): an upload_screenshot call that passed the rate check and
\* issued its request has set last_capture_time to its own 'now', whatever
\* the outcome of the request.
C11_LastCaptureSetOnEveryOutcome ==
    (op.kind = "screenshot" /\ Len(reqs) >= 1) => last_capture_time = op.current_time

\* C13 (as claimed): a live send answered 422 ends, for send_heartbeat and
\* upload_screenshot alike, in a returned diagnostic and an unchanged queue.
C13_RejectedReturned ==
    (pc = "done" /\ live.status = 422) =>
        (result = Returned("diagnostic") /\ store = store0)

\* C13 (amended): a live send answered 422 leaves the queue unchanged and makes
\* no replay pass; upload_screenshot returns the diagnostic body when it is
\* JSON and raises JSONDecodeError when it is not; send_heartbeat raises the
\* HTTPError.
C13_RejectedScreenshotReturnedHeartbeatRaised ==
    (pc = "done" /\ live.status = 422) =>
        /\ store = store0
        /\ passes = 0
        /\ Len(reqs) = 1
        /\ op.kind = "heartbeat" => result = Raised("HTTPError")
        /\ op.kind = "screenshot" =>
              result = (IF live.json THEN Returned("diagnostic")
                                    ELSE Raised("JSONDecodeError"))

C13_Witness ==
    /\ pc = "done"
    /\ live.status = 422
    /\ op.kind = "screenshot"
    /\ live.json
    /\ result = Returned("diagnostic")
    /\ store0 # {}

\* C14 (as claimed): when the live send was transient and the enqueue failed
\* with a storage error (nothing was stored), the caller is not handed the
\* Queued result of a successful enqueue.
C14_FailedEnqueueDistinct ==
    (pc = "done" /\ Transient(live) /\ fault /\ store = store0) =>
        result # Returned("cached")

\* C12 (as claimed): no request is issued for a queued event whose earlier
\* resend was answered 401, 413 or 422.
C12_TerminalNeverResent ==
    [][(pc = "replay_post" /\ reqs' # reqs) => batch[bi].id # rejected]_vars

\* C15 (as claimed): a DataCache call in which the storage layer raised
\* returns a value that the call cannot return when it succeeds: not True
\* for add_item, remove_item and clear_cache, not the empty list of an empty
\* queue for get_pending_items, not the count 0 of an empty queue for get_stats.
C15_FailureDistinct ==
    (ret.raised /\ ret.call # "_init_db") =>
        IF ret.call = "get_pending_items" THEN ret.items # <<>>
        ELSE IF ret.call = "get_stats" THEN ret.count # 0
        ELSE ret.ok # TRUE

\* the payload as json reads it back: a tuple has become a list
ReadBack(d) == [k \in DOMAIN d |-> IF d[k].py = "tuple" THEN PyList(d[k].q) ELSE d[k]]

\* what C16 says of the event just enqueued, given the payload expected back
RoundTrip(Expected(_)) ==
    (ret.call = "add_item" /\ ~ret.raised) =>
        \A b \in get_pending_items(TRUE, MaxId) :
            \E i \in 1..Len(b) :
                /\ b[i].id = seq
                /\ b[i].type = ret.entry[1]
                /\ b[i].data = Expected(ret.entry[2])
                /\ b[i].file_data = ret.entry[3]

Same(d) == d

C17_IdsNeverReused ==
    [][/\ \A r \in store' \ store : r.id > seq /\ r.id = seq'
       /\ seq' >= seq
       /\ \A r \in store' : r.id <= seq'
       /\ \A r1, r2 \in store' : r1.id = r2.id => r1 = r2]_vars

C17_Witness ==
    /\ ret.call = "add_item"
    /\ ~ret.raised
    /\ seq = MaxId
    /\ store0 = {}
    /\ Ids(store) = {MaxId}

\* C18: a stored event stays in the store, whole and unchanged, over every
\* step, a crash and restart at any point included, unless the step is the
\* remove_item that follows an accepted resend of it, or clear_cache.
C18_CrashDurable ==
    [][\A r \in store :
          \/ r \in store'
          \/ /\ pc = "replay_remove"
             /\ r.id = batch[bi].id
             /\ reqs[Len(reqs)].id = r.id
             /\ reqs[Len(reqs)].accepted
          \/ pc = "idle" /\ pc' = "idle" /\ store' = {}]_vars

C18_Witness ==
    /\ result = Crashed
    /\ Cardinality(store) >= 2
    /\ rejected # 0

\* C19: get_pending_items changes neither the stored events nor the next id,
\* and returns at most limit events.
C19_DequeueNonDestructive ==
    [][ret'.call = "get_pending_items" =>
          (store' = store /\ seq' = seq /\ Len(ret'.items) <= ret'.n)]_vars

C19_Witness ==
    /\ ret.call = "get_pending_items"
    /\ ~ret.raised
    /\ Cardinality(store) > ret.n
    /\ Len(ret.items) = ret.n

\* C20: remove_item(id) deletes the event with that id and no other, reports
\* success also when no event has that id, and doing it again changes nothing.
C20_RemoveExactIdempotent ==
    (ret.call = "remove_item" /\ ~ret.raised) =>
        /\ ret.ok = TRUE
        /\ store = {r \in store0 : r.id # ret.n}
        /\ (ret.n \notin Ids(store0)) => store = store0
        /\ remove_item(store, ret.n) = store

C20_Witness ==
    /\ ret.call = "remove_item"
    /\ ~ret.raised
    /\ ret.n \notin Ids(store0)
    /\ Cardinality(store0) >= 2

----------------------------------------------------------------------------
\* the row of the table with this id
Row(id) == CHOOSE r \in store : r.id = id

\* the rows a SELECT ... ORDER BY timestamp ASC LIMIT n reads, when no two
\* rows have the same timestamp
Oldest(n) == {r \in store : Cardinality({x \in store : x.timestamp < r.timestamp}) < n}

\* the replay pass has read its batch and has not changed the table yet
BatchRead ==
    /\ passes = 1 /\ ~fault /\ removes = <<>>
    /\ pc \in {"replay_post", "replay_remove", "hb_return", "ss_return"}

\* C21: a corrupt record met during a batch read is skipped without aborting
\* the read: the batch of a replay pass is, oldest first, every well-formed
\* record among the records the read covered (the ReplayLimit oldest), each
\* with its stored kind, decoded payload and attachment.
C21_CorruptSkipped ==
    BatchRead =>
        /\ {batch[i].id : i \in 1..Len(batch)}
              = {r.id : r \in {x \in Oldest(ReplayLimit) : json_ok(x.data)}}
        /\ \A i, j \in 1..Len(batch) :
              i < j => Row(batch[i].id).timestamp < Row(batch[j].id).timestamp
        /\ \A i \in 1..Len(batch) :
              LET r == Row(batch[i].id)
              IN batch[i] = [id |-> r.id, type |-> r.type, data |-> json_loads(r.data),
                             file_data |-> r.file_data]

\* a batch of three records read around two corrupt ones
C21_Witness ==
    /\ BatchRead /\ pc = "replay_post" /\ bi = 1
    /\ Len(batch) = 3
    /\ \E r \in Oldest(ReplayLimit) : ~json_ok(r.data) /\ r.id < batch[1].id
    /\ \E r \in Oldest(ReplayLimit) : ~json_ok(r.data) /\ batch[1].id < r.id /\ r.id < batch[3].id

----------------------------------------------------------------------------
\* C22: one invocation runs at most one replay pass, which reads one batch of
\* at most 5 events: the invocation issues at most 1 + 5 requests and removes
\* at most 5 events from the queue.
C22_OnePassAtMostFive ==
    /\ passes <= 1
    /\ Len(batch) <= 5
    /\ Len(reqs) <= 1 + 5
    /\ Len(removes) <= 5
    /\ pc # "idle" => Cardinality(Ids(store0) \ Ids(store)) <= 5

\* an invocation that sent its live event and five replays, removed five
\* events and left a well-formed one in the queue
C22_Witness ==
    /\ pc = "done"
    /\ passes = 1
    /\ Len(reqs) = 6
    /\ Cardinality(Ids(store0) \ Ids(store)) = 5
    /\ \E r \in store : json_ok(r.data) /\ r.id \in Ids(store0)

----------------------------------------------------------------------------
\* C23: last_capture_time lives in memory only: a restart sets it to zero and
\* leaves the queue as it was, it stays zero until a screenshot request is
\* issued, and an upload_screenshot called while it is zero (the first one of
\* the new process) passes the rate check.
C23_RateLimiterVolatile ==
    [][/\ (result # Crashed /\ result' = Crashed) =>
              (last_capture_time' = 0 /\ store' = store /\ seq' = seq)
       /\ (last_capture_time = 0 /\ last_capture_time' # 0) => pc = "ss_post"
       /\ (pc = "idle" /\ last_capture_time = 0 /\ pc' # "idle" /\ op'.kind = "screenshot")
              => (pc' = "ss_post" /\ result' = NoResult)]_vars

\* a restarted process whose queue still holds a screenshot of the present second
C23_Witness ==
    /\ result = Crashed
    /\ last_capture_time = 0
    /\ \E r \in store : r.type = "screenshot" /\ r.timestamp = clock

----------------------------------------------------------------------------
\* C24: after a clear_cache that succeeded the queue is empty: a
\* get_pending_items that follows returns the empty list, and a get_stats that
\* follows reports count 0.
C24_ClearEmpties ==
    (ret.call = "clear_cache" /\ ret.ok) =>
        /\ store = {}
        /\ \A n \in Limits : get_pending_items(TRUE, n) = {<<>>}
        /\ \A z \in Sizes : z > 0 => get_stats(TRUE, z).count = 0

\* a clear_cache that succeeded on a table of two rows or more
C24_Witness ==
    /\ ret.call = "clear_cache" /\ ret.ok
    /\ Cardinality(store0) >= 2

\* C25: the count that get_stats reports is the number of events in the
\* store, and it is the number of events that get_pending_items returns for a
\* limit that is at least the size of the store, after any sequence of
\* add_item, remove_item and clear_cache.
C25_CountMatches ==
    /\ \A z \in Sizes : z > 0 => get_stats(TRUE, z).count = Cardinality(store)
    /\ \A n \in Cardinality(store)..MaxId :
          \A b \in get_pending_items(TRUE, n) : Len(b) = Cardinality(store)
    /\ (ret.call = "get_stats" /\ ~ret.raised) => ret.count = Cardinality(store)
    /\ (ret.call = "get_pending_items" /\ ~ret.raised /\ ret.n >= Cardinality(store))
          => Len(ret.items) = Cardinality(store)

\* get_stats reports two events after three were added and one was removed
C25_Witness ==
    /\ ret.call = "get_stats" /\ ~ret.raised
    /\ ret.count = 2
    /\ seq = 3

----------------------------------------------------------------------------
\* C26 (as claimed): test_connection returns True only if its heartbeat was
\* accepted; when the backend is unreachable, or answers 401 or another error
\* status, test_connection returns False and create_client returns None.
C26_ConnectionTested ==
    /\ (pc = "tested" /\ result.what = "True") => Accepted(live)
    /\ (pc = "tested" /\ (live.exc \/ IsHTTPError(live))) => result.what = "False"
    /\ (pc = "created" /\ (live.exc \/ IsHTTPError(live))) => result.what = "None"

\* the part of C26 that the code keeps: an error status (401 and the others)
\* makes test_connection return False and create_client return None
C26_ErrorStatusRefused ==
    /\ (pc = "tested" /\ IsHTTPError(live)) => result.what = "False"
    /\ (pc = "created" /\ IsHTTPError(live)) => result.what = "None"

----------------------------------------------------------------------------
\* the invocation was an upload_screenshot that the rate check turned away
WasRateLimited == pc = "done" /\ op.kind = "screenshot" /\ result.what = "rate_limited"

\* a rate-limited call issues no request, runs no replay pass and leaves the
\* queue and last_capture_time as they were; it returns interval - elapsed
RateLimitedNoEffect ==
    WasRateLimited =>
        /\ reqs = <<>> /\ passes = 0 /\ removes = <<>>
        /\ store = store0
        /\ result.retry_after
              = min_capture_interval - (op.current_time - last_capture_time)

\* C27 (as claimed): a rate-limited upload_screenshot has no effect (no
\* request, no replay pass, queue and last_capture_time unchanged) and returns
\* remaining = interval - elapsed with 0 < remaining <= interval.
C27_RateLimitedRemaining ==
    /\ RateLimitedNoEffect
    /\ WasRateLimited =>
          (0 < result.retry_after /\ result.retry_after <= min_capture_interval)

\* what holds of the remaining time: it is positive, and at most the interval
\* when the clock reading is not before last_capture_time
C27_RemainingUnlessClockSetBack ==
    /\ RateLimitedNoEffect
    /\ WasRateLimited =>
          /\ 0 < result.retry_after
          /\ op.current_time >= last_capture_time
                => result.retry_after <= min_capture_interval

----------------------------------------------------------------------------
\* the row with this id that the table held when the invocation started
Row0(id) == CHOOSE r \in store0 : r.id = id

\* C28: the requests of an invocation are its live request and then, one at a
\* time and in batch order, the requests of the replay pass; each replay
\* request goes to the endpoint of the stored kind with the stored payload
\* (as decoded) and the stored attachment, and is issued only after the
\* replay request before it was accepted.
C28_ReplayRequests ==
    /\ \A k \in 1..Len(reqs) : (k = 1) = (reqs[k].id = 0)
    /\ Len(reqs) >= 1 => reqs[1].type = op.kind /\ reqs[1].data = op.data
    /\ \A k \in 2..Len(reqs) :
          /\ k - 1 <= Len(batch) /\ reqs[k].id = batch[k - 1].id
          /\ reqs[k].id \in Ids(store0)
          /\ reqs[k].type = Row0(reqs[k].id).type
          /\ reqs[k].data = json_loads(Row0(reqs[k].id).data)
          /\ reqs[k].data.timestamp = PyNum(Row0(reqs[k].id).timestamp)
          /\ reqs[k].file_data = Row0(reqs[k].id).file_data
          /\ k > 2 => reqs[k - 1].accepted

\* a pass that resent a heartbeat and a screenshot and stopped at the third event
C28_Witness ==
    /\ pc = "done"
    /\ Len(reqs) = 4
    /\ reqs[2].type = "heartbeat" /\ reqs[3].type = "screenshot"
    /\ reqs[3].file_data.some
    /\ ~reqs[4].accepted

----------------------------------------------------------------------------
\* the well-formed rows the table held when the invocation started
WellFormed0 == {r \in store0 : json_ok(r.data)}

\* the oldest of them
OldestWellFormed0 == CHOOSE r \in WellFormed0 : \A x \in WellFormed0 : r.timestamp <= x.timestamp

\* the replay pass of the invocation is over, and its SELECT did not fail
PassDone ==
    /\ passes = 1
    /\ pc \in {"hb_return", "ss_return"}
    /\ ~fault \/ \E j \in 1..Len(removes) : ~removes[j].ok

\* C29 (as claimed): a replay pass run while the store holds a well-formed
\* event sends the oldest well-formed event, however many corrupt records
\* are older than it.
C29_CorruptNeverBlocks ==
    (PassDone /\ WellFormed0 # {}) =>
        (Len(reqs) >= 2 /\ reqs[2].id = OldestWellFormed0.id)

\* what the code keeps: the pass sends the oldest well-formed event when
\* fewer than ReplayLimit corrupt records are older than it
C29_FewCorruptNeverBlock ==
    (/\ PassDone /\ WellFormed0 # {}
     /\ Cardinality({r \in store0 : ~json_ok(r.data)
                                    /\ r.timestamp < OldestWellFormed0.timestamp}) < ReplayLimit)
        => (Len(reqs) >= 2 /\ reqs[2].id = OldestWellFormed0.id)

----------------------------------------------------------------------------
\* C30: stored events are never updated in place: as long as an id is in the
\* store, its row (id, kind, payload, attachment, timestamp) is the one that
\* add_item inserted, whatever live sends, replay passes, other add_item and
\* remove_item calls, restarts and clock changes come between.
C30_NeverUpdatedInPlace ==
    [][/\ \A r \in store : r.id \in Ids(store') => r \in store'
       /\ Cardinality(Ids(store')) = Cardinality(store')]_vars

\* event 1 is still queued after event 2 was enqueued and removed and event 3 enqueued
C30_Witness ==
    /\ seq = 3
    /\ Ids(store) = {1, 3}
    /\ Row(1).timestamp # Row(3).timestamp

----------------------------------------------------------------------------
\* what the caller of send_heartbeat / upload_screenshot gets for a live send
\* that failed at the network, was answered 5xx, or was accepted
LiveResult(lv) ==
    IF lv.exc THEN Returned("cached")
    ELSE IF Is5xx(lv) THEN Raised("HTTPError")
    ELSE IF lv.json THEN Returned("response") ELSE Returned("cached")

\* C31: a storage failure of add_item, get_pending_items or remove_item inside
\* an invocation never reaches the caller as an exception of the storage
\* layer: the invocation ends, with the result that the outcome of its live
\* send determines, whether or not a queue operation failed on the way.
C31_StorageErrorContained ==
    /\ pc = "done" => result.what # "sqlite3.Error"
    /\ (pc = "done" /\ (live.exc \/ Is5xx(live) \/ Accepted(live)))
          => result = LiveResult(live)
    /\ fault => (live.exc \/ Is5xx(live) \/ Accepted(live))

\* an accepted send whose replay pass met a failing remove_item
C31_Witness ==
    /\ pc = "done" /\ fault
    /\ Accepted(live)
    /\ \E j \in 1..Len(removes) : ~removes[j].ok
    /\ result = Returned("response")

----------------------------------------------------------------------------
\* C34 (as claimed): an event the remote accepted live is never enqueued: a
\* call whose live request was answered 2xx adds no event to the queue,
\* whether or not the body of the answer parses as JSON.
C34_AcceptedNeverEnqueued ==
    (pc = "done" /\ Accepted(live)) => Ids(store) \subseteq Ids(store0)

\* what the code keeps: nothing is enqueued when the 2xx body is JSON
C34_AcceptedJsonNeverEnqueued ==
    (pc = "done" /\ Accepted(live) /\ live.json) => Ids(store) \subseteq Ids(store0)

----------------------------------------------------------------------------
\* C35 (as claimed): the replay pass removes an event only after it has
\* issued a request for it, whatever the stored kind of the event.
C35_RemovedOnlyAfterRequest ==
    \A j \in 1..Len(removes) : \E k \in 2..Len(reqs) : reqs[k].id = removes[j].id

----------------------------------------------------------------------------
\* a remove_item that fails right after an accepted resend does not stop the
\* pass, and leaves the event in the queue as it was
RemoveFailureGoesOn ==
    /\ (pc = "replay_remove" /\ result' # Crashed) =>
          IF bi < Len(batch) THEN pc' = "replay_post" /\ bi' = bi + 1
                             ELSE pc' = AfterReplay
    /\ (pc = "replay_remove" /\ store' = store /\ result' # Crashed)
          => (unremoved' # 0 /\ unremoved' \in Ids(store'))
    /\ (unremoved # 0 /\ unremoved' = unremoved)
          => (\E r \in store : r.id = unremoved /\ r \in store')

\* the first resend of a replay pass, made while an un-removed event is outstanding
FirstResend == pc = "replay_post" /\ bi = 1 /\ reqs' # reqs /\ unremoved # 0

\* C36 (as claimed): when remove_item fails with a storage error right after
\* an accepted resend, the pass goes on to the next event of the batch, the
\* event stays in the queue unchanged, and it is the first event that the
\* next replay pass resends.
C36_UnremovedResentFirst ==
    [][RemoveFailureGoesOn /\ (FirstResend => batch[1].id = unremoved)]_vars

\* what the code keeps: the pass goes on, the event stays unchanged, and the
\* next pass resends it first unless a queued event has a timestamp that is
\* not later (the clock was set back, or two events share a clock reading)
C36_UnremovedResentFirstByTimestamp ==
    [][/\ RemoveFailureGoesOn
       /\ (FirstResend /\ \A r \in store : r.id # unremoved
                               => Row(unremoved).timestamp < r.timestamp)
             => batch[1].id = unremoved]_vars

----------------------------------------------------------------------------
\* C33 (as claimed): when the remote accepts every request, storage works and
\* send_heartbeat keeps being invoked, every queued event is resent and
\* removed and the queue becomes empty, whatever its length; an accepted
\* invocation that finds five events or more removes five.
C33_EventualDrain ==
    /\ <>(store = {})
    /\ [](pc = "done" /\ Cardinality(store0) >= ReplayLimit
            => Cardinality(Ids(store0) \ Ids(store)) = ReplayLimit)

\* what the code keeps: a queue without corrupt records drains, five events
\* per invocation
C33_EventualDrainOfWellFormed ==
    (\A r \in store : json_ok(r.data)) =>
        /\ <>(store = {})
        /\ [](pc = "done" /\ Cardinality(store0) >= ReplayLimit
                => Cardinality(Ids(store0) \ Ids(store)) = ReplayLimit)


----------------------------------------------------------------------------
----------------------------------------------------------------------------
\* ids in the table are unique, and a row inserted gets an id above every id
\* assigned before
IdsIncrease ==
    /\ \A r1, r2 \in store' : r1.id = r2.id => r1 = r2
    /\ \A r \in store' \ store : r.id > seq /\ \A x \in store : x.id < r.id

\* rq holds an accepted resend of the queued event r
ResentAccepted(rq, r) ==
    \E k \in 1..Len(rq) :
        /\ rq[k].id = r.id
        /\ rq[k].accepted
        /\ rq[k].data = json_loads(r.data)

\* a row leaves the table only when one of the two processes holds an accepted
\* resend of it
NothingLost ==
    \A r \in store \ store' : ResentAccepted(reqs', r) \/ ResentAccepted(peer.reqs', r)

\* a process removes an id that is no longer in the table: the table is left
\* as it is and the pass goes on
FirstRemovesAbsent ==
    /\ pc = "replay_remove"
    /\ Len(removes') = Len(removes) + 1
    /\ batch[bi].id \notin Ids(store)

PeerRemovesAbsent ==
    /\ peer.pc = "replay_remove"
    /\ Len(peer'.removes) = Len(peer.removes) + 1
    /\ peer.batch[peer.bi].id \notin Ids(store)

AbsentRemoveHarmless ==
    /\ FirstRemovesAbsent => store' = store /\ pc' \in {"replay_post", AfterReplay}
    /\ PeerRemovesAbsent => store' = store /\ peer'.pc \in {"replay_post", "hb_return"}

\* C37: two processes on one queue, interleaved between queue operations and
\* requests: ids stay unique and increasing, a queued event stays stored until
\* a resend of it by one of the two was accepted, and removing an event the
\* other process already removed changes nothing.
C37_SharedQueueSafe == [][IdsIncrease /\ NothingLost /\ AbsentRemoveHarmless]_vars

\* the same event was resent by both processes, both resends were accepted,
\* and the second remove found the row gone
C37_Witness ==
    \E i \in 1..Len(removes), j \in 1..Len(peer.removes) :
        /\ removes[i].id = peer.removes[j].id
        /\ \E k \in 1..Len(reqs) : reqs[k].id = removes[i].id /\ reqs[k].accepted
        /\ \E k \in 1..Len(peer.reqs) : peer.reqs[k].id = removes[i].id /\ peer.reqs[k].accepted

============================================================================
